---- MODULE Spec2Model ----
(***************************************************************************)
(* Model of the ALT Linux OVAL vulnerability source of trivy-db            *)
(* (pkg/vulnsrc/alt): reference resolution (resolveTests, followTestRefs), *)
(* criteria evaluation (walkCriterion), advisory building (parseOVAL),     *)
(* merging (mergeAdvisories), the Update run with its two persistence      *)
(* batches, and the query Get.                                             *)
(*                                                                         *)
(* Go strings are TLA+ strings; Go slices are sequences (nil and empty     *)
(* are both <<>>); Go maps are functions whose DOMAIN is the key set.      *)
(***************************************************************************)
EXTENDS Integers, Sequences, FiniteSets, TLC

VARIABLES
    pc,          \* position of the process inside / between runs of Update
    run,         \* number of Update runs started so far
    nParses,     \* number of parseOVAL calls made so far (all runs)
    advisories,  \* Update's local map[bucket]AdvisorySpecial
    vendorCVEs,  \* the package-level slice vendorCVEs
    dbVuln,      \* store: vulnerability ID -> vendor detail (PutVulnerabilityDetail)
    dbAdv,       \* store: bucket -> AdvisorySpecial (PutAdvisoryDetail)
    calls,       \* BatchUpdate invocations of the current run, in order
    parsed,      \* the product directories parseOVAL was called on in the current run
    mark,        \* Len(vendorCVEs) when the current run began
    batch,       \* the records the putVendorCVEs of the current run committed
    err,         \* what the last finished Update returned
    arg,         \* input of the function under study (function-level specifications)
    ret          \* its result

runVars == <<pc, run, nParses, advisories, vendorCVEs, dbVuln, dbAdv, calls, parsed, mark, batch, err>>
vars == <<pc, run, nParses, advisories, vendorCVEs, dbVuln, dbAdv, calls, parsed, mark, batch, err, arg, ret>>

(***************************************************************************)
(* Bounds of the model.                                                    *)
(***************************************************************************)
MaxRuns == 2      \* Update runs per process
MaxParses == 2    \* product directories parsed per process
MaxTests == 2     \* length of a tests.json list (resolveTests study)
MaxNodes == 4     \* nodes of a criteria tree (walkCriterion study)
MaxRefs == 3      \* length of a reference list (vendorID study)
MaxCPEs == 2      \* length of an affected-platform list (mergeAdvisories study)
MaxMerges == 3    \* mergeAdvisories calls (mergeAdvisories study)

(***************************************************************************)
(* Helpers for Go's strings package and for slices and maps.               *)
(***************************************************************************)
Char(s, i) == SubSeq(s, i, i)

\* strings.Contains
Contains(s, substr) ==
    \E i \in 1..(Len(s) - Len(substr) + 1) : SubSeq(s, i, i + Len(substr) - 1) = substr

\* strings.HasPrefix
HasPrefix(s, prefix) ==
    Len(s) >= Len(prefix) /\ SubSeq(s, 1, Len(prefix)) = prefix

\* strings.Split(s, sep) for a one-character sep: the pieces between the separators
RECURSIVE SplitFrom(_, _, _, _)
SplitFrom(s, sep, start, i) ==
    IF i > Len(s) THEN <<SubSeq(s, start, Len(s))>>
    ELSE IF Char(s, i) = sep
         THEN <<SubSeq(s, start, i - 1)>> \o SplitFrom(s, sep, i + 1, i + 1)
         ELSE SplitFrom(s, sep, start, i + 1)

Split(s, sep) == SplitFrom(s, sep, 1, 1)

UpperCase == "ABCDEFGHIJKLMNOPQRSTUVWXYZ"
LowerCase == "abcdefghijklmnopqrstuvwxyz"

ToLowerChar(c) ==
    IF \E i \in 1..Len(UpperCase) : Char(UpperCase, i) = c
    THEN Char(LowerCase, CHOOSE i \in 1..Len(UpperCase) : Char(UpperCase, i) = c)
    ELSE c

\* strings.ToLower
RECURSIVE ToLower(_)
ToLower(s) == IF s = "" THEN "" ELSE ToLowerChar(Char(s, 1)) \o ToLower(SubSeq(s, 2, Len(s)))

Range(seq) == {seq[i] : i \in 1..Len(seq)}

NoDup(seq) == \A i, j \in 1..Len(seq) : seq[i] = seq[j] => i = j

\* sequences over S of length at most n
SeqUpTo(S, n) == UNION {[1..k -> S] : k \in 0..n}

\* m[k] = v on a Go map
Put(m, k, v) == [x \in DOMAIN m \cup {k} |-> IF x = k THEN v ELSE m[x]]

\* the map a loop "for _, r := range list { m[r.ID] = r }" builds: the last record wins
ByID(list) ==
    [id \in {list[i].ID : i \in 1..Len(list)} |->
        list[CHOOSE i \in 1..Len(list) :
                /\ list[i].ID = id
                /\ \A j \in (i + 1)..Len(list) : list[j].ID # id]]

RECURSIVE Concat(_)
Concat(seqs) == IF seqs = <<>> THEN <<>> ELSE Head(seqs) \o Concat(Tail(seqs))

(***************************************************************************)
(* Reference resolution: one product directory holds objects.json,         *)
(* states.json, tests.json and definitions.json; "malformed" is the set of *)
(* those files that cannot be opened or decoded.                           *)
(***************************************************************************)
\* unmarshalJSONFile: whether the file decodes
unmarshalJSONFile(dir, fileName) == fileName \notin dir.malformed

\* the zero resolvedTest
emptyTest == [Name |-> "", FixedVersion |-> "", Arch |-> ""]

\* followTestRefs with a missing state treated like an empty state reference
followTestRefsSoftState(test, objects, states) ==
    IF test.Object.ObjectRef = "" THEN [t |-> emptyTest, err |-> ""]
    ELSE IF test.Object.ObjectRef \notin DOMAIN objects
    THEN [t |-> emptyTest, err |-> "can't find object ref"]
    ELSE [t |-> [emptyTest EXCEPT !.Name = objects[test.Object.ObjectRef].Name], err |-> ""]

followTestRefs(test, objects, states) ==
    IF test.Object.ObjectRef = "" THEN [t |-> emptyTest, err |-> ""]
    ELSE IF test.Object.ObjectRef \notin DOMAIN objects
    THEN [t |-> emptyTest, err |-> "can't find object ref"]
    ELSE LET name == objects[test.Object.ObjectRef].Name IN
         IF test.State.StateRef = ""
         THEN [t |-> [emptyTest EXCEPT !.Name = name], err |-> ""]
         ELSE IF test.State.StateRef \notin DOMAIN states
         THEN [t |-> [emptyTest EXCEPT !.Name = name], err |-> "can't find ovalstate ref"]
         ELSE LET state == states[test.State.StateRef] IN
              [t |-> [Name |-> name,
                      FixedVersion |->
                          IF state.EVR.Datatype = "evr_string" /\ state.EVR.Operation = "less than"
                          THEN state.EVR.Text ELSE "",
                      Arch |->
                          IF /\ state.Arch.Datatype = "string"
                             /\ state.Arch.Operation \in {"pattern match", "equals"}
                          THEN state.Arch.Text ELSE ""],
               err |-> ""]

parseObjects(dir) ==
    IF unmarshalJSONFile(dir, "objects.json")
    THEN [objs |-> ByID(dir.objects), err |-> ""]
    ELSE [objs |-> <<>>, err |-> "failed to unmarshal objects"]

parseStates(dir) ==
    IF unmarshalJSONFile(dir, "states.json")
    THEN [states |-> ByID(dir.states), err |-> ""]
    ELSE [states |-> <<>>, err |-> "failed to unmarshal states"]

parseTests(dir) ==
    IF unmarshalJSONFile(dir, "tests.json")
    THEN [tests |-> dir.tests, err |-> ""]
    ELSE [tests |-> <<>>, err |-> "failed to unmarshal tests"]

parseDefinitions(dir) ==
    IF unmarshalJSONFile(dir, "definitions.json")
    THEN [definitions |-> dir.definitions, err |-> ""]
    ELSE [definitions |-> <<>>, err |-> "failed to parse definitions"]

\* the loop of resolveTests over tests[i..]: rpmTests is the map built so far
RECURSIVE resolveLoop(_, _, _, _, _)
resolveLoop(tests, i, objects, states, rpmTests) ==
    IF i > Len(tests) THEN [rpmTests |-> rpmTests, err |-> ""]
    ELSE LET r == followTestRefs(tests[i], objects, states) IN
         IF r.err # "" THEN [rpmTests |-> <<>>, err |-> r.err]
         ELSE resolveLoop(tests, i + 1, objects, states, Put(rpmTests, tests[i].ID, r.t))

resolveTests(dir) ==
    LET o == parseObjects(dir)
        s == parseStates(dir)
        t == parseTests(dir)
    IN  IF o.err # "" THEN [rpmTests |-> <<>>, err |-> o.err]
        ELSE IF s.err # "" THEN [rpmTests |-> <<>>, err |-> s.err]
        ELSE IF t.err # "" THEN [rpmTests |-> <<>>, err |-> t.err]
        ELSE resolveLoop(t.tests, 1, o.objs, s.states, <<>>)

(***************************************************************************)
(* Criteria evaluation.                                                    *)
(***************************************************************************)
\* the first loop of walkCriterion, over cri.Criterions[i..]
RECURSIVE walkLeaves(_, _, _)
walkLeaves(criterions, i, tests) ==
    IF i > Len(criterions) THEN <<>>
    ELSE IF criterions[i].TestRef \notin DOMAIN tests
    THEN walkLeaves(criterions, i + 1, tests)
    ELSE LET t == tests[criterions[i].TestRef] IN
         <<[Name |-> t.Name,
            FixedVersion |-> t.FixedVersion,
            Arches |-> IF t.Arch # "" THEN Split(t.Arch, "|") ELSE <<>>]>>
         \o walkLeaves(criterions, i + 1, tests)

RECURSIVE walkCriterion(_, _)
\* walkCriterion with the children's packages put before the node's own
walkCriterionChildrenFirst(cri, tests) ==
    Concat([k \in 1..Len(cri.Criterias) |-> walkCriterion(cri.Criterias[k], tests)])
    \o walkLeaves(cri.Criterions, 1, tests)

walkCriterion(cri, tests) ==
    LET packages == walkLeaves(cri.Criterions, 1, tests) IN
    IF Len(cri.Criterias) = 0 THEN packages
    ELSE packages \o Concat([k \in 1..Len(cri.Criterias) |-> walkCriterion(cri.Criterias[k], tests)])

(***************************************************************************)
(* Identifiers and severities of a definition.                             *)
(***************************************************************************)
RECURSIVE vendorIDFrom(_, _)
vendorIDFrom(refs, i) ==
    IF i > Len(refs) THEN ""
    ELSE IF refs[i].Source = "ALTPU" THEN refs[i].RefID
    ELSE vendorIDFrom(refs, i + 1)

\* vendorID with the scan going on to the last ALTPU reference
RECURSIVE vendorIDLastFrom(_, _, _)
vendorIDLastFrom(refs, i, id) ==
    IF i > Len(refs) THEN id
    ELSE vendorIDLastFrom(refs, i + 1, IF refs[i].Source = "ALTPU" THEN refs[i].RefID ELSE id)

vendorIDLast(refs) == vendorIDLastFrom(refs, 1, "")

vendorID(refs) == vendorIDFrom(refs, 1)

severityFromImpact(sev) ==
    LET l == ToLower(sev) IN
    IF l = "low" THEN "LOW"
    ELSE IF l = "medium" THEN "MEDIUM"
    ELSE IF l = "high" THEN "HIGH"
    ELSE IF l = "critical" THEN "CRITICAL"
    ELSE "UNKNOWN"

\* vendorCVE: the last reference whose RefID contains "ALT" names the record
RECURSIVE vendorCVEID(_, _, _)
vendorCVEID(refs, i, id) ==
    IF i > Len(refs) THEN id
    ELSE vendorCVEID(refs, i + 1, IF Contains(refs[i].RefID, "ALT") THEN refs[i].RefID ELSE id)

vendorCVE(metadata) ==
    [ID |-> vendorCVEID(metadata.References, 1, ""),
     Severity |-> severityFromImpact(metadata.Advisory.Severity)]

toReferences(references) == [i \in 1..Len(references) |-> references[i].RefURL]

(***************************************************************************)
(* Advisory building: parseOVAL.                                           *)
(***************************************************************************)
bduEntries(advisory) ==
    [i \in 1..Len(advisory.Metadata.Advisory.BDUs) |->
        [ID |-> advisory.Metadata.Advisory.BDUs[i].ID,
         Severity |-> severityFromImpact(advisory.Metadata.Advisory.BDUs[i].Impact)]]

\* cveEntries as built for one affected package: vendor record, bulletins, CVEs
cveEntriesOf(advisory) ==
    <<vendorCVE(advisory.Metadata)>>
    \o bduEntries(advisory)
    \o [i \in 1..Len(advisory.Metadata.Advisory.CVEs) |->
            [ID |-> advisory.Metadata.Advisory.CVEs[i].ID,
             Severity |-> severityFromImpact(advisory.Metadata.Advisory.CVEs[i].Impact)]]

\* what one iteration of the affectedPkgs loop appends to vendorCVEs
vendorAppends(advisory) ==
    <<[CVE |-> vendorCVE(advisory.Metadata),
       Title |-> advisory.Metadata.Title,
       Description |-> advisory.Metadata.Description,
       References |-> toReferences(advisory.Metadata.References)]>>
    \o [i \in 1..Len(advisory.Metadata.Advisory.BDUs) |->
            [CVE |-> bduEntries(advisory)[i],
             Title |-> "",
             Description |-> "",
             References |-> <<advisory.Metadata.Advisory.BDUs[i].Href>>]]

\* the writes defs[bkt] = ... one iteration of the affectedPkgs loop makes, in order
defsWrites(advisory, affectedPkg) ==
    LET altID == vendorID(advisory.Metadata.References)
        cveEntries == cveEntriesOf(advisory)
    IN  IF altID # ""
        THEN <<[bkt |-> [packageName |-> affectedPkg.Name, vulnerabilityID |-> altID],
                def |-> [Entry |-> [CVEs |-> cveEntries,
                                    FixedVersion |-> affectedPkg.FixedVersion,
                                    AffectedCPEList |-> advisory.Metadata.Advisory.AffectedCPEs.CPEs,
                                    Arches |-> affectedPkg.Arches]]]>>
        ELSE [i \in 1..Len(cveEntries) |->
                [bkt |-> [packageName |-> affectedPkg.Name, vulnerabilityID |-> cveEntries[i].ID],
                 def |-> [Entry |-> [CVEs |-> <<[ID |-> "", Severity |-> cveEntries[i].Severity]>>,
                                     FixedVersion |-> affectedPkg.FixedVersion,
                                     AffectedCPEList |-> advisory.Metadata.Advisory.AffectedCPEs.CPEs,
                                     Arches |-> affectedPkg.Arches]]]]

\* one definition: the records appended to vendorCVEs and the writes to defs
definitionStep(advisory, tests) ==
    IF Contains(advisory.ID, "unaffected") THEN [vendor |-> <<>>, writes |-> <<>>]
    ELSE LET affectedPkgs == walkCriterion(advisory.Criteria, tests) IN
         [vendor |-> Concat([k \in 1..Len(affectedPkgs) |-> vendorAppends(advisory)]),
          writes |-> Concat([k \in 1..Len(affectedPkgs) |-> defsWrites(advisory, affectedPkgs[k])])]

\* the writes applied in order to the map defs: a later write to a bucket replaces the earlier
RECURSIVE applyWrites(_, _, _)
applyWrites(defs, writes, i) ==
    IF i > Len(writes) THEN defs
    ELSE applyWrites(Put(defs, writes[i].bkt, writes[i].def), writes, i + 1)

parseOVAL(dir) ==
    LET t == resolveTests(dir)
        d == parseDefinitions(dir)
    IN  IF t.err # "" THEN [defs |-> <<>>, vendor |-> <<>>, err |-> t.err]
        ELSE IF d.err # "" THEN [defs |-> <<>>, vendor |-> <<>>, err |-> d.err]
        ELSE LET steps == [k \in 1..Len(d.definitions) |-> definitionStep(d.definitions[k], t.rpmTests)] IN
             [defs |-> applyWrites(<<>>, Concat([k \in 1..Len(steps) |-> steps[k].writes]), 1),
              vendor |-> Concat([k \in 1..Len(steps) |-> steps[k].vendor]),
              err |-> ""]

(***************************************************************************)
(* Merging.                                                                *)
(***************************************************************************)
\* ustrings.Merge: the union of two lists, first occurrences kept in order
RECURSIVE Unique(_, _)
Unique(list, seen) ==
    IF list = <<>> THEN <<>>
    ELSE IF Head(list) \in seen THEN Unique(Tail(list), seen)
    ELSE <<Head(list)>> \o Unique(Tail(list), seen \cup {Head(list)})

Merge(a, b) == Unique(a \o b, {})

\* the condition of mergeAdvisories' inner loop; slices.Equal compares element by element
sameVariant(entry, def) ==
    entry.FixedVersion = def.Entry.FixedVersion /\ entry.Arches = def.Entry.Arches

\* mergeEntry with the platform list of an equal variant replaced instead of merged
mergeEntryReplaceCPEs(old, def) ==
    LET found == \E i \in 1..Len(old.Entries) : sameVariant(old.Entries[i], def)
        merged == [i \in 1..Len(old.Entries) |->
                      IF sameVariant(old.Entries[i], def)
                      THEN [old.Entries[i] EXCEPT !.AffectedCPEList = def.Entry.AffectedCPEList]
                      ELSE old.Entries[i]]
    IN  [Entries |-> IF found THEN merged ELSE Append(merged, def.Entry)]

\* the body of mergeAdvisories for a bucket that exists already
mergeEntry(old, def) ==
    LET found == \E i \in 1..Len(old.Entries) : sameVariant(old.Entries[i], def)
        merged == [i \in 1..Len(old.Entries) |->
                      IF sameVariant(old.Entries[i], def)
                      THEN [old.Entries[i] EXCEPT
                               !.AffectedCPEList = Merge(old.Entries[i].AffectedCPEList,
                                                         def.Entry.AffectedCPEList)]
                      ELSE old.Entries[i]]
    IN  [Entries |-> IF found THEN merged ELSE Append(merged, def.Entry)]

\* the buckets of defs are distinct keys, so the order in which Go ranges over defs
\* does not change the result
mergeAdvisories(advs, defs) ==
    [bkt \in DOMAIN advs \cup DOMAIN defs |->
        IF bkt \notin DOMAIN defs THEN advs[bkt]
        ELSE IF bkt \in DOMAIN advs THEN mergeEntry(advs[bkt], defs[bkt])
        ELSE [Entries |-> <<defs[bkt].Entry>>]]

(***************************************************************************)
(* The product directories the runs draw from.                             *)
(***************************************************************************)
Test(id, o, s) == [ID |-> id, Object |-> [ObjectRef |-> o], State |-> [StateRef |-> s]]

Matcher(d, op, text) == [Datatype |-> d, Operation |-> op, Text |-> text]

Ref(id, source) == [RefID |-> id, RefURL |-> "https://errata/" \o id, Source |-> source]

Node(testRefs, children) ==
    [Criterions |-> [i \in 1..Len(testRefs) |-> [TestRef |-> testRefs[i]]], Criterias |-> children]

Definition(id, refs, bdus, cves, cpes, criteria) ==
    [ID |-> id,
     Metadata |-> [Title |-> "title of " \o id,
                   Description |-> "description of " \o id,
                   References |-> refs,
                   Advisory |-> [Severity |-> "High",
                                 BDUs |-> bdus,
                                 CVEs |-> cves,
                                 AffectedCPEs |-> [CPEs |-> cpes]]],
     Criteria |-> criteria]

Dir(objects, states, tests, definitions, malformed) ==
    [objects |-> objects, states |-> states, tests |-> tests,
     definitions |-> definitions, malformed |-> malformed]

Objects == <<[ID |-> "o1", Name |-> "foo"], [ID |-> "o2", Name |-> "bar"]>>

States ==
    <<[ID |-> "s1", Arch |-> Matcher("string", "pattern match", "x86_64|i586"),
                    EVR |-> Matcher("evr_string", "less than", "1.2-4")],
      [ID |-> "s2", Arch |-> Matcher("string", "pattern match", "i586|x86_64"),
                    EVR |-> Matcher("evr_string", "less than", "1.2-4")],
      [ID |-> "s3", Arch |-> Matcher("string", "equals", "x86_64"),
                    EVR |-> Matcher("evr_string", "less than", "1.3-1")]>>

GoodTests ==
    <<Test("t1", "o1", "s1"), Test("t2", "o1", "s2"), Test("t3", "o1", "s3"),
      Test("t4", "o2", ""), Test("t5", "", "")>>

\* a test whose object is missing, and one whose state is missing
BadTests == {Test("t6", "o9", "s1"), Test("t6", "o1", "s9")}

\* a reference list with a canonical vendor identifier, and one without
VendorRefs == <<Ref("CVE-1", "CVE"), Ref("ALT-PU-1", "ALTPU")>>
OtherRefs == <<Ref("ALT-BU-1", "ALTBU")>>

\* bulletins and CVE cross-references
NoAdvisory == [BDUs |-> <<>>, CVEs |-> <<>>]
OneAdvisory ==
    [BDUs |-> <<[ID |-> "BDU:1", Impact |-> "LOW", Href |-> "https://bdu/1"]>>,
     CVEs |-> <<[ID |-> "CVE-1", Impact |-> "critical"]>>]

CPELists == {<<"cpe:/o:alt:sp:10">>, <<"cpe:/o:alt:sp:11">>}

TwoVersions == Node(<<"t1", "t9">>, <<Node(<<"t3">>, <<>>)>>)  \* two versions of foo, one dangling ref

CriteriaTrees ==
    {Node(<<>>, <<>>),                                  \* no affected package
     Node(<<"t1">>, <<>>),
     Node(<<"t2">>, <<>>),
     Node(<<"t4">>, <<>>),
     TwoVersions}

Definitions ==
    {Definition("oval:def:1", VendorRefs, OneAdvisory.BDUs, OneAdvisory.CVEs, c, k) :
        c \in CPELists, k \in CriteriaTrees}
    \cup {Definition("oval:def:1", r, a.BDUs, a.CVEs, <<"cpe:/o:alt:sp:10">>, k) :
            r \in {VendorRefs, OtherRefs}, a \in {NoAdvisory, OneAdvisory},
            k \in {Node(<<"t1">>, <<>>)}}
    \cup {Definition("oval:def:1", OtherRefs, OneAdvisory.BDUs, OneAdvisory.CVEs,
                     <<"cpe:/o:alt:sp:11">>, TwoVersions)}

UnaffectedDefinition ==
    Definition("oval:def:unaffected:2", <<Ref("ALT-PU-1", "ALTPU")>>,
               <<[ID |-> "BDU:1", Impact |-> "LOW", Href |-> "https://bdu/1"]>>, <<>>,
               <<"cpe:/o:alt:sp:10">>, Node(<<"t1">>, <<>>))

TwoDefinitions ==
    <<Definition("oval:def:3", <<Ref("ALT-PU-1", "ALTPU")>>, <<>>, <<>>,
                 <<"cpe:/o:alt:sp:10">>, Node(<<"t1">>, <<>>)),
      Definition("oval:def:4", <<Ref("ALT-PU-1", "ALTPU")>>, <<>>, <<>>,
                 <<"cpe:/o:alt:sp:10">>, Node(<<"t3">>, <<>>))>>

Dirs ==
    {Dir(Objects, States, GoodTests, <<d>>, {}) : d \in Definitions}
    \cup {Dir(Objects, States, GoodTests, <<UnaffectedDefinition>>, {}),
          Dir(Objects, States, GoodTests, TwoDefinitions, {}),
          Dir(Objects, States, GoodTests, TwoDefinitions, {"definitions.json"})}
    \cup {Dir(Objects, States, Append(GoodTests, t), TwoDefinitions, {}) : t \in BadTests}

(***************************************************************************)
(* The store (db.Operation).  A BatchUpdate whose function returns an      *)
(* error commits nothing.                                                  *)
(***************************************************************************)
\* putVendorVulnerabilityDetail for cves[i..] in order
RECURSIVE putVendorDetails(_, _, _)
putVendorDetails(db, cves, i) ==
    IF i > Len(cves) THEN db
    ELSE putVendorDetails(Put(db, cves[i].CVE.ID,
                              [Severity |-> cves[i].CVE.Severity,
                               References |-> cves[i].References,
                               Title |-> cves[i].Title,
                               Description |-> cves[i].Description]),
                          cves, i + 1)

\* the PutAdvisoryDetail calls of save: one upsert per bucket
putAdvisories(db, advs) ==
    [bkt \in DOMAIN db \cup DOMAIN advs |-> IF bkt \in DOMAIN advs THEN advs[bkt] ELSE db[bkt]]

(***************************************************************************)
(* Update.                                                                 *)
(***************************************************************************)
\* Update is called and getBranches succeeds
StartUpdate ==
    /\ pc = "idle" /\ run < MaxRuns
    /\ run' = run + 1
    /\ advisories' = <<>>
    /\ calls' = <<>> /\ parsed' = <<>> /\ mark' = Len(vendorCVEs) /\ batch' = <<>>
    /\ err' = "running"
    /\ pc' = "loop"
    /\ UNCHANGED <<nParses, vendorCVEs, dbVuln, dbAdv, arg, ret>>

\* Update is called and getBranches fails
GetBranchesFails ==
    /\ pc = "idle" /\ run < MaxRuns
    /\ run' = run + 1
    /\ advisories' = <<>>
    /\ calls' = <<>> /\ parsed' = <<>> /\ mark' = Len(vendorCVEs) /\ batch' = <<>>
    /\ err' = "failed to get directory branch list"
    /\ pc' = "idle"
    /\ UNCHANGED <<nParses, vendorCVEs, dbVuln, dbAdv, arg, ret>>

\* getProducts fails for the next branch
GetProductsFails ==
    /\ pc = "loop"
    /\ err' = "failed to get directory products list"
    /\ pc' = "idle"
    /\ UNCHANGED <<run, nParses, advisories, vendorCVEs, dbVuln, dbAdv, calls, parsed, mark, batch, arg, ret>>

\* ParseProduct with the error of parseOVAL dropped: the loop goes on
ParseProductIgnoreError(dir) ==
    /\ pc = "loop" /\ nParses < MaxParses
    /\ nParses' = nParses + 1
    /\ parsed' = Append(parsed, dir)
    /\ LET r == parseOVAL(dir) IN
       /\ vendorCVEs' = vendorCVEs \o r.vendor
       /\ advisories' = mergeAdvisories(advisories, r.defs)
    /\ UNCHANGED <<pc, err, run, dbVuln, dbAdv, calls, mark, batch, arg, ret>>

\* one iteration of the loop over products: parseOVAL, then mergeAdvisories
ParseProduct(dir) ==
    /\ pc = "loop" /\ nParses < MaxParses
    /\ nParses' = nParses + 1
    /\ parsed' = Append(parsed, dir)
    /\ LET r == parseOVAL(dir) IN
       /\ vendorCVEs' = vendorCVEs \o r.vendor
       /\ IF r.err # ""
          THEN /\ err' = "failed to parse product OVAL"
               /\ pc' = "idle"
               /\ UNCHANGED advisories
          ELSE /\ advisories' = mergeAdvisories(advisories, r.defs)
               /\ UNCHANGED <<pc, err>>
    /\ UNCHANGED <<run, dbVuln, dbAdv, calls, mark, batch, arg, ret>>

\* the loops are over: putVendorCVEs, whose batch commits (ok) or fails
PutVendorCVEs(ok) ==
    /\ pc = "loop"
    /\ calls' = Append(calls, "vendor")
    /\ IF ok
       THEN /\ dbVuln' = putVendorDetails(dbVuln, vendorCVEs, 1)
            /\ batch' = vendorCVEs
            /\ pc' = "save"
            /\ UNCHANGED err
       ELSE /\ err' = "put vendor cve error"
            /\ pc' = "idle"
            /\ UNCHANGED <<dbVuln, batch>>
    /\ UNCHANGED <<run, nParses, advisories, vendorCVEs, dbAdv, parsed, mark, arg, ret>>

\* save, whose batch commits (ok) or fails; Update returns
Save(ok) ==
    /\ pc = "save"
    /\ calls' = Append(calls, "advisory")
    /\ IF ok
       THEN /\ dbAdv' = putAdvisories(dbAdv, advisories)
            /\ err' = "nil"
       ELSE /\ err' = "save error"
            /\ UNCHANGED dbAdv
    /\ pc' = "idle"
    /\ UNCHANGED <<run, nParses, advisories, vendorCVEs, dbVuln, parsed, mark, batch, arg, ret>>

Init ==
    /\ pc = "idle" /\ run = 0 /\ nParses = 0
    /\ advisories = <<>> /\ vendorCVEs = <<>>
    /\ dbVuln = <<>> /\ dbAdv = <<>>
    /\ calls = <<>> /\ parsed = <<>> /\ mark = 0 /\ batch = <<>>
    /\ err = "nil"
    /\ arg = <<>> /\ ret = <<>>

Next ==
    \/ StartUpdate
    \/ GetBranchesFails
    \/ GetProductsFails
    \/ \E dir \in Dirs : ParseProduct(dir)
    \/ \E ok \in BOOLEAN : PutVendorCVEs(ok)
    \/ \E ok \in BOOLEAN : Save(ok)

Spec == Init /\ [][Next]_vars

(***************************************************************************)
(* Function-level specifications: the input is drawn in the initial state, *)
(* the action applies the function; the variables of Update stay put.      *)
(***************************************************************************)
InitRun ==
    /\ run = 0 /\ nParses = 0
    /\ advisories = <<>> /\ vendorCVEs = <<>>
    /\ dbVuln = <<>> /\ dbAdv = <<>>
    /\ calls = <<>> /\ parsed = <<>> /\ mark = 0 /\ batch = <<>>
    /\ err = "nil"

Return(value) ==
    /\ pc = "call"
    /\ pc' = "return"
    /\ ret' = value
    /\ UNCHANGED <<run, nParses, advisories, vendorCVEs, dbVuln, dbAdv, calls, parsed, mark, batch, err, arg>>

\* ---- resolveTests ----
NoShape ==
    [ID |-> "s4", Arch |-> Matcher("string", "not equal", "armh"),
                  EVR |-> Matcher("evr_string", "greater than", "0.9-1")]

TestRecords ==
    {Test(id, o, s) : id \in {"t1", "t2"}, o \in {"", "o1", "o9"}, s \in {"", "s1", "s4", "s9"}}

ResolveInputs ==
    {Dir(Objects, Append(States, NoShape), tests, <<>>, {}) : tests \in SeqUpTo(TestRecords, MaxTests)}

InitResolve == InitRun /\ pc = "call" /\ arg \in ResolveInputs /\ ret = <<>>

CallResolveTests == Return(resolveTests(arg))

SpecResolve == InitResolve /\ [][CallResolveTests]_vars

\* ---- walkCriterion ----
LeafLists == {<<>>, <<"t1">>, <<"t2", "t9", "t3">>}

\* criteria trees of exactly n nodes, and sequences of trees of n nodes altogether
RECURSIVE TreesOf(_), ForestsOf(_)
TreesOf(n) == {Node(l, f) : l \in LeafLists, f \in ForestsOf(n - 1)}
ForestsOf(n) ==
    IF n = 0 THEN {<<>>}
    ELSE UNION {{<<t>> \o f : t \in TreesOf(k), f \in ForestsOf(n - k)} : k \in 1..n}

WalkTests ==
    [id \in {"t1", "t2", "t3"} |->
        CASE id = "t1" -> [Name |-> "foo", FixedVersion |-> "1.2-4", Arch |-> "x86_64|i586"]
          [] id = "t2" -> [Name |-> "bar", FixedVersion |-> "", Arch |-> ""]
          [] id = "t3" -> [Name |-> "baz", FixedVersion |-> "2.0-1", Arch |-> "noarch"]]

InitWalk ==
    /\ InitRun /\ pc = "call" /\ ret = <<>>
    /\ arg \in {[cri |-> c, tests |-> WalkTests] : c \in UNION {TreesOf(n) : n \in 1..MaxNodes}}

CallWalkCriterion == Return(walkCriterion(arg.cri, arg.tests))

SpecWalk == InitWalk /\ [][CallWalkCriterion]_vars

\* ---- vendorID ----
RefRecords == {Ref(id, source) : id \in {"ALT-PU-1", "ALT-PU-2"}, source \in {"ALTPU", "CVE"}}

InitVendorID == InitRun /\ pc = "call" /\ arg \in SeqUpTo(RefRecords, MaxRefs) /\ ret = <<>>

CallVendorID == Return(vendorID(arg))

SpecVendorID == InitVendorID /\ [][CallVendorID]_vars

(***************************************************************************)
(* Properties of the functions.                                            *)
(***************************************************************************)
HasObject(dir, test) == \E i \in 1..Len(dir.objects) : dir.objects[i].ID = test.Object.ObjectRef

HasState(dir, test) == \E i \in 1..Len(dir.states) : dir.states[i].ID = test.State.StateRef

BrokenTest(dir, test) ==
    \/ test.Object.ObjectRef # "" /\ ~HasObject(dir, test)
    \/ HasObject(dir, test) /\ test.State.StateRef # "" /\ ~HasState(dir, test)

\* C10: resolveTests returns a fact for every test of the list or fails and returns no
\* map at all; it fails exactly when some test has a non-empty objectRef that is not in
\* the object table, or a resolvable objectRef and a non-empty stateRef that is not in
\* the state table; a test with an empty objectRef yields the all-empty fact, and a test
\* with a valid objectRef and an empty stateRef yields the object's name with an empty
\* fixed version and an empty arch pattern.
C10_ResolveAllOrNothing ==
    pc = "return" =>
        LET tests == arg.tests IN
        /\ ret.err # "" <=> \E i \in 1..Len(tests) : BrokenTest(arg, tests[i])
        /\ ret.err # "" => ret.rpmTests = <<>>
        /\ ret.err = "" =>
            /\ DOMAIN ret.rpmTests = {tests[i].ID : i \in 1..Len(tests)}
            /\ \A i \in 1..Len(tests) :
                 (\A j \in (i + 1)..Len(tests) : tests[j].ID # tests[i].ID) =>
                    LET fact == ret.rpmTests[tests[i].ID] IN
                    /\ tests[i].Object.ObjectRef = "" =>
                          fact = [Name |-> "", FixedVersion |-> "", Arch |-> ""]
                    /\ HasObject(arg, tests[i]) /\ tests[i].State.StateRef = "" =>
                          /\ \E k \in 1..Len(arg.objects) :
                                /\ arg.objects[k].ID = tests[i].Object.ObjectRef
                                /\ fact.Name = arg.objects[k].Name
                          /\ fact.FixedVersion = "" /\ fact.Arch = ""

\* a failing resolution whose first test resolved fully: a partial map was at hand
C10_Witness ==
    /\ pc = "return" /\ ret.err # "" /\ Len(arg.tests) = 2
    /\ arg.tests[1].Object.ObjectRef = "o1" /\ arg.tests[1].State.StateRef = "s1"
    /\ arg.tests[2].Object.ObjectRef = "o1" /\ arg.tests[2].State.StateRef = "s9"

\* the test references of a tree: a node's own, then those of its children in order
RECURSIVE AllRefs(_)
AllRefs(cri) ==
    [i \in 1..Len(cri.Criterions) |-> cri.Criterions[i].TestRef]
    \o Concat([k \in 1..Len(cri.Criterias) |-> AllRefs(cri.Criterias[k])])

RECURSIVE JoinBar(_)
JoinBar(list) ==
    IF Len(list) = 1 THEN list[1] ELSE list[1] \o "|" \o JoinBar(Tail(list))

\* C9: walkCriterion returns, for the test references of the tree taken node first and
\* then child by child in order, one fact per reference present in the fact map and
\* nothing for a dangling one; a fact carries the test's name and fixed version, an
\* empty architecture list for an empty archPattern and otherwise the pieces of the
\* archPattern between the '|' characters, in order.
C9_WalkIsOrderedUnion ==
    pc = "return" =>
        LET Present(r) == r \in DOMAIN arg.tests
            refs == SelectSeq(AllRefs(arg.cri), Present)
        IN  /\ Len(ret) = Len(refs)
            /\ \A i \in 1..Len(refs) :
                 LET t == arg.tests[refs[i]] IN
                 /\ ret[i].Name = t.Name
                 /\ ret[i].FixedVersion = t.FixedVersion
                 /\ t.Arch = "" <=> ret[i].Arches = <<>>
                 /\ t.Arch # "" =>
                       /\ JoinBar(ret[i].Arches) = t.Arch
                       /\ \A a \in Range(ret[i].Arches) : ~Contains(a, "|")

\* a tree three levels deep with own leaves, a dangling reference and a split pattern
C9_Witness ==
    /\ pc = "return"
    /\ arg.cri.Criterions # <<>>
    /\ Len(arg.cri.Criterias) = 1
    /\ Len(arg.cri.Criterias[1].Criterions) = 3
    /\ arg.cri.Criterias[1].Criterias # <<>>
    /\ Len(ret) = 4
    /\ ret[1].Arches = <<"x86_64", "i586">>

AltpuAt(refs) == {i \in 1..Len(refs) : refs[i].Source = "ALTPU"}

contains(lst, val) == \E i \in 1..Len(lst) : lst[i] = val

\* the two inner loops of Get for one stored advisory
getAdvisories(vulnID, adv, cpe) ==
    Concat([i \in 1..Len(adv.Entries) |->
        IF ~contains(adv.Entries[i].AffectedCPEList, cpe) THEN <<>>
        ELSE [k \in 1..Len(adv.Entries[i].CVEs) |->
                [Severity |-> adv.Entries[i].CVEs[k].Severity,
                 FixedVersion |-> adv.Entries[i].FixedVersion,
                 Arches |-> adv.Entries[i].Arches,
                 VulnerabilityID |-> IF HasPrefix(vulnID, "CVE-") THEN vulnID
                                     ELSE adv.Entries[i].CVEs[k].ID,
                 VendorIDs |-> IF HasPrefix(vulnID, "CVE-") THEN <<>> ELSE <<vulnID>>]]])

\* Get ranges over the stored advisories of the package in Go's map order, which is not
\* fixed: the result is kept per vulnerability ID instead of concatenated.  The store
\* holds what save put, so no stored content is empty and each decodes to the value put
Get(pkgName, cpe) ==
    [vulnID \in {bkt.vulnerabilityID : bkt \in {b \in DOMAIN dbAdv : b.packageName = pkgName}} |->
        getAdvisories(vulnID, dbAdv[[packageName |-> pkgName, vulnerabilityID |-> vulnID]], cpe)]

(***************************************************************************)
(* Properties of Update and Get.                                           *)
(***************************************************************************)
EntryPairs(adv) == {p \in (1..Len(adv.Entries)) \X (1..Len(adv.Entries)) : p[1] < p[2]}

\* C1: in every bucket of the advisory map no two distinct entries have the same
\* fixedVersion and the same architecture list compared as a set.
C1_NoSetDuplicates ==
    \A bkt \in DOMAIN advisories : \A p \in EntryPairs(advisories[bkt]) :
        LET a == advisories[bkt].Entries[p[1]]
            b == advisories[bkt].Entries[p[2]]
        IN  ~(a.FixedVersion = b.FixedVersion /\ Range(a.Arches) = Range(b.Arches))

DefinitionsOf(dir) == IF parseOVAL(dir).err = "" THEN Range(dir.definitions) ELSE {}

\* C2: for every directory processed in the run, every definition that is not skipped
\* and has a canonical vendor identifier V, and every affected-package fact f of its
\* criteria, the advisory map handed to save has in bucket (f.Name, V) an entry with
\* f's fixed version and f's architecture list.
C2_NoFactLost ==
    pc = "save" =>
        \A k \in 1..Len(parsed) : \A d \in DefinitionsOf(parsed[k]) :
            LET V == vendorID(d.Metadata.References)
                facts == walkCriterion(d.Criteria, resolveTests(parsed[k]).rpmTests)
            IN  ~Contains(d.ID, "unaffected") /\ V # "" =>
                    \A i \in 1..Len(facts) :
                        LET bkt == [packageName |-> facts[i].Name, vulnerabilityID |-> V] IN
                        /\ bkt \in DOMAIN advisories
                        /\ \E e \in Range(advisories[bkt].Entries) :
                              e.FixedVersion = facts[i].FixedVersion /\ e.Arches = facts[i].Arches

\* C3: the records putVendorCVEs persists in a run are records of the definitions read
\* in that run.
C3_FreshAccumulator ==
    Range(batch) \subseteq UNION {Range(parseOVAL(parsed[k]).vendor) : k \in 1..Len(parsed)}

DirBroken(dir) ==
    \/ dir.malformed # {}
    \/ \E i \in 1..Len(dir.tests) : BrokenTest(dir, dir.tests[i])

\* C4: in every run the store's batches are invoked at most twice, the vendor catalog
\* before the advisories; once a directory fails to resolve or decode, Update has
\* returned an error, no later directory was processed and no batch was invoked; when
\* the vendor-catalog batch fails, the advisory batch is not invoked.
C4_FailFast ==
    /\ calls \in {<<>>, <<"vendor">>, <<"vendor", "advisory">>}
    /\ \A k \in 1..Len(parsed) :
          DirBroken(parsed[k]) =>
              /\ k = Len(parsed)
              /\ calls = <<>>
              /\ pc = "idle"
              /\ err = "failed to parse product OVAL"
    /\ err = "put vendor cve error" => calls = <<"vendor">> /\ pc = "idle"
    /\ pc = "idle" /\ run > 0 /\ err = "nil" => calls = <<"vendor", "advisory">>

\* a run that parsed one directory and failed on the second
C4_Witness ==
    /\ Len(parsed) = 2 /\ ~DirBroken(parsed[1]) /\ DirBroken(parsed[2])
    /\ parsed[2].malformed = {}
    /\ pc = "idle" /\ calls = <<>> /\ dbVuln = <<>> /\ dbAdv = <<>>

AllDefinitions == UNION {Range(dir.definitions) : dir \in Dirs}

CanonicalIDs == {vendorID(d.Metadata.References) : d \in AllDefinitions} \ {""}

\* the records of the entries of adv whose platform list has cpe, in order
MatchingRecords(adv, cpe) ==
    Concat([i \in 1..Len(adv.Entries) |->
        IF cpe \in Range(adv.Entries[i].AffectedCPEList) THEN adv.Entries[i].CVEs ELSE <<>>])

\* C5: Get returns one result per vulnerability record of each stored entry whose
\* platform list has the queried platform and none for any other entry; under a bucket
\* keyed by a canonical vendor identifier a result's VulnerabilityID is the record's
\* identifier and VendorIDs is the key alone; under any other bucket the result's
\* VulnerabilityID is the bucket key.
C5_GetResults ==
    \A bkt \in DOMAIN dbAdv : \A cpe \in UNION {Range(l) : l \in CPELists} :
        LET res == Get(bkt.packageName, cpe)[bkt.vulnerabilityID]
            recs == MatchingRecords(dbAdv[bkt], cpe)
        IN  /\ Len(res) = Len(recs)
            /\ \A k \in 1..Len(res) :
                  IF bkt.vulnerabilityID \in CanonicalIDs
                  THEN /\ res[k].VulnerabilityID = recs[k].ID
                       /\ res[k].VendorIDs = <<bkt.vulnerabilityID>>
                  ELSE res[k].VulnerabilityID = bkt.vulnerabilityID

\* the records a definition is to add to the vendor catalog: its own and its bulletins'
CatalogCount(d) ==
    IF Contains(d.ID, "unaffected") THEN 0 ELSE 1 + Len(d.Metadata.Advisory.BDUs)

RECURSIVE SumSeq(_)
SumSeq(list) == IF list = <<>> THEN 0 ELSE Head(list) + SumSeq(Tail(list))

DirCatalogCount(dir) ==
    IF parseOVAL(dir).err # "" THEN 0
    ELSE SumSeq([i \in 1..Len(dir.definitions) |-> CatalogCount(dir.definitions[i])])

\* C7: the records appended to the vendor catalog in a run are, per definition read and
\* not skipped, one for the vendor's own entry and one per bulletin, whatever the
\* number of affected packages, none of them for a plain CVE cross-reference; a
\* definition marked unaffected appends none.
C7_OneRecordPerDefinition ==
    /\ Len(vendorCVEs) - mark = SumSeq([k \in 1..Len(parsed) |-> DirCatalogCount(parsed[k])])
    /\ \A i \in (mark + 1)..Len(vendorCVEs) : ~HasPrefix(vendorCVEs[i].CVE.ID, "CVE-")

(***************************************************************************)
(* mergeAdvisories on its own: two per-file results are drawn in the       *)
(* initial state and merged, in any order and repeatedly, into a map that  *)
(* starts empty as in Update.                                              *)
(***************************************************************************)
MergeEntries ==
    {[CVEs |-> <<[ID |-> "ALT-PU-1", Severity |-> "HIGH"]>>,
      FixedVersion |-> v, AffectedCPEList |-> c, Arches |-> a] :
        v \in {"1.2-4", "1.3-1"},
        a \in {<<"x86_64", "i586">>, <<"i586", "x86_64">>},
        c \in SeqUpTo({"cpe:/o:alt:sp:10", "cpe:/o:alt:sp:11"}, MaxCPEs)}

FooBucket == [packageName |-> "foo", vulnerabilityID |-> "ALT-PU-1"]
BarBucket == [packageName |-> "bar", vulnerabilityID |-> "ALT-PU-1"]

BarEntry ==
    [CVEs |-> <<[ID |-> "ALT-PU-1", Severity |-> "HIGH"]>>,
     FixedVersion |-> "", AffectedCPEList |-> <<"cpe:/o:alt:sp:10">>, Arches |-> <<>>]

\* the maps parseOVAL may return: one entry per bucket
MergeInputs ==
    {<<>>}
    \cup {[bkt \in {FooBucket} |-> [Entry |-> e]] : e \in MergeEntries}
    \cup {[bkt \in {FooBucket, BarBucket} |-> [Entry |-> BarEntry]]}

InitMerge ==
    /\ InitRun /\ pc = "merge"
    /\ arg \in MergeInputs \X MergeInputs
    /\ ret = [m |-> <<>>, prev |-> <<>>, log |-> <<>>]

\* advisories = vs.mergeAdvisories(advisories, definitions) with the k-th result
CallMergeAdvisories(k) ==
    /\ pc = "merge" /\ Len(ret.log) < MaxMerges
    /\ ret' = [m |-> mergeAdvisories(ret.m, arg[k]), prev |-> ret.m, log |-> Append(ret.log, k)]
    /\ UNCHANGED <<pc, run, nParses, advisories, vendorCVEs, dbVuln, dbAdv, calls, parsed, mark, batch, err, arg>>

SpecMerge == InitMerge /\ [][\E k \in 1..2 : CallMergeAdvisories(k)]_vars

FirstIndex(list, x) == CHOOSE i \in 1..Len(list) : list[i] = x /\ \A j \in 1..(i - 1) : list[j] # x

\* r is the union of a and b: every string of either once, in the order of first occurrence
IsOrderedUnion(a, b, r) ==
    /\ NoDup(r)
    /\ Range(r) = Range(a) \cup Range(b)
    /\ \A i, j \in 1..Len(r) : i < j => FirstIndex(a \o b, r[i]) < FirstIndex(a \o b, r[j])

SameKey(e, f) == e.FixedVersion = f.FixedVersion /\ e.Arches = f.Arches

\* the variants of every bucket with their platform sets
Variants(m) ==
    [bkt \in DOMAIN m |->
        {<<e.FixedVersion, e.Arches, Range(e.AffectedCPEList)>> : e \in Range(m[bkt].Entries)}]

\* the last merge met an equal (fixedVersion, arches) entry: one such entry is kept, with
\* the union of the platform lists, and nothing is appended
MergedInPlace ==
    LET defs == arg[ret.log[Len(ret.log)]] IN
    \A bkt \in DOMAIN defs \cap DOMAIN ret.prev :
        LET old == ret.prev[bkt].Entries
            new == ret.m[bkt].Entries
        IN  \A i \in 1..Len(old) :
                SameKey(old[i], defs[bkt].Entry) =>
                    /\ Len(new) = Len(old)
                    /\ {j \in 1..Len(new) : SameKey(new[j], defs[bkt].Entry)} = {i}
                    /\ IsOrderedUnion(old[i].AffectedCPEList, defs[bkt].Entry.AffectedCPEList,
                                      new[i].AffectedCPEList)

\* the two results merged in either order give the same variants and platform sets
EitherOrder ==
    ret.log \in {<<1, 2>>, <<2, 1>>} =>
        Variants(ret.m) =
            Variants(mergeAdvisories(mergeAdvisories(<<>>, arg[ret.log[2]]), arg[ret.log[1]]))

Repeated == Len(ret.log) >= 2 /\ ret.log[Len(ret.log)] = ret.log[Len(ret.log) - 1]

\* C8 as claimed: an incoming entry equal in (fixedVersion, ordered arches) to an entry
\* of the bucket is merged in place with the order-preserving duplicate-free union of
\* the platform lists; merging the same per-file result a second time leaves the map
\* unchanged; merging two results in either order gives the same variants per bucket
\* with the same platform sets.
C8_MergeIdempotent ==
    pc = "merge" /\ ret.log # <<>> =>
        /\ MergedInPlace
        /\ EitherOrder
        /\ Repeated => ret.m = ret.prev

\* C8 amended: as claimed, except that merging the same per-file result a second time
\* leaves the map unchanged only where the platform lists hold no repeated string; an
\* entry's list that holds one is left as it is or loses its repeats, and nothing
\* else changes.
C8_MergeIdempotentUpToRepeats ==
    pc = "merge" /\ ret.log # <<>> =>
        /\ MergedInPlace
        /\ EitherOrder
        /\ Repeated =>
            /\ DOMAIN ret.m = DOMAIN ret.prev
            /\ \A bkt \in DOMAIN ret.m :
                 LET old == ret.prev[bkt].Entries
                     new == ret.m[bkt].Entries
                 IN  /\ Len(new) = Len(old)
                     /\ \A i \in 1..Len(old) :
                          /\ new[i].FixedVersion = old[i].FixedVersion
                          /\ new[i].Arches = old[i].Arches
                          /\ new[i].CVEs = old[i].CVEs
                          /\ NoDup(old[i].AffectedCPEList) =>
                                new[i].AffectedCPEList = old[i].AffectedCPEList
                          /\ \/ new[i].AffectedCPEList = old[i].AffectedCPEList
                             \/ IsOrderedUnion(old[i].AffectedCPEList, <<>>, new[i].AffectedCPEList)

\* two results with the same variant and different platforms, the second merged twice
C8_Witness ==
    /\ pc = "merge" /\ ret.log = <<1, 2, 2>>
    /\ FooBucket \in DOMAIN arg[1] /\ FooBucket \in DOMAIN arg[2]
    /\ SameKey(arg[1][FooBucket].Entry, arg[2][FooBucket].Entry)
    /\ arg[1][FooBucket].Entry.AffectedCPEList = <<"cpe:/o:alt:sp:11">>
    /\ arg[2][FooBucket].Entry.AffectedCPEList = <<"cpe:/o:alt:sp:10", "cpe:/o:alt:sp:11">>
    /\ ret.m[FooBucket].Entries[1].AffectedCPEList = <<"cpe:/o:alt:sp:11", "cpe:/o:alt:sp:10">>
    /\ ret.m = ret.prev

====
